---- MODULE Spec2Model ----
(***************************************************************************)
(* figcon: a file-backed JSON configuration store (src/src/lib.rs).        *)
(*                                                                         *)
(* ValueExtensions is the key-navigation layer over serde_json::Value;     *)
(* FigCon owns one Value (live_config) and one PathBuf (location) and      *)
(* offers load_or_default / set_path / reload / save plus delegating key   *)
(* operations.                                                             *)
(***************************************************************************)
EXTENDS Integers, Sequences, FiniteSets, TLC

VARIABLES
    status,       \* "Unloaded" | "Loaded" | "Panicked" : lifecycle of the FigCon
    live_config,  \* FigCon.live_config : serde_json::Value
    location,     \* FigCon.location    : PathBuf
    fs,           \* the file system: path -> file
    last,         \* the call that produced this state: [op, key, key2, val, path]
                  \* and prev, the name of the call before: kept for save and
                  \* reload, and for a set_key that repeats the call before
    ret           \* what that call returned

vars == <<status, live_config, location, fs, last, ret>>

-----------------------------------------------------------------------------
(* serde_json::Value.  An Object's map is a function from its keys.         *)

Null    == [t |-> "null"]
Bool(b) == [t |-> "bool", b |-> b]
Num(n)  == [t |-> "num", n |-> n]
Str(s)  == [t |-> "str", s |-> s]
Arr(a)  == [t |-> "arr", a |-> a]
Obj(m)  == [t |-> "obj", m |-> m]

EmptyMap == << >>
EmptyObj == Obj(EmptyMap)

\* a one-key and a two-key map
Map1(k, v)          == [x \in {k} |-> v]
Map2(k1, v1, k2, v2) == [x \in {k1, k2} |-> IF x = k1 THEN v1 ELSE v2]

\* Option<T> and ()
None    == [opt |-> "none"]
Some(x) == [opt |-> "some", v |-> x]
Unit    == [opt |-> "unit"]

-----------------------------------------------------------------------------
(* Bounds and input domains                                                 *)

MaxNum == 2

Keys     == {"a", "b"}
KeyOrder == <<"a", "b">>
Paths    == {"p1", "p2"}

NoKey   == "-"
NoPath  == "-"
NoValue == [t |-> "none"]

-----------------------------------------------------------------------------
(* serde_json::Map primitives used by the navigation layer                  *)

contains_key(m, k) == k \in DOMAIN m

map_insert(m, k, v) == [x \in (DOMAIN m) \cup {k} |-> IF x = k THEN v ELSE m[x]]

map_remove(m, k) == [x \in (DOMAIN m) \ {k} |-> m[x]]

\* Extend::extend : every (k, v) of other is inserted, replacing existing keys
map_extend(m, other) ==
    [x \in (DOMAIN m) \cup (DOMAIN other) |-> IF x \in DOMAIN other THEN other[x] ELSE m[x]]

\* Map::keys / Map::values visit the entries in key order
sorted_keys(m) == SelectSeq(KeyOrder, LAMBDA k : k \in DOMAIN m)

map_values(m) == [i \in 1..Len(sorted_keys(m)) |-> m[sorted_keys(m)[i]]]

-----------------------------------------------------------------------------
(* impl ValueExtensions for Value                                           *)

is_object(self) == self.t = "obj"

obj(self) == IF is_object(self) THEN Some(self.m) ELSE None

\* any_keys with the length test off by one
any_keys_more_than_one(self) ==
    IF obj(self) # None THEN Cardinality(DOMAIN self.m) > 1 ELSE FALSE

any_keys(self) ==
    IF obj(self) # None THEN DOMAIN self.m # {} ELSE FALSE

\* list_keys guarded by is_object instead of any_keys
list_keys_of_any_object(self) ==
    IF is_object(self) THEN Some(sorted_keys(self.m)) ELSE None

list_keys(self) ==
    IF any_keys(self) THEN Some(sorted_keys(self.m)) ELSE None

list_values(self) ==
    IF any_keys(self) THEN Some(map_values(self.m)) ELSE None

\* set_key that inserts a missing key and leaves an existing one alone
set_key_no_overwrite(self, key, value) ==
    IF obj(self) # None
    THEN IF contains_key(self.m, key)
         THEN self
         ELSE Obj(map_insert(self.m, key, value))
    ELSE self

\* set_key that collects the old and the new value of an existing key
set_key_accumulating(self, key, value) ==
    IF obj(self) # None
    THEN IF contains_key(self.m, key)
         THEN Obj([self.m EXCEPT ![key] = Arr(<<self.m[key], value>>)])
         ELSE Obj(map_insert(self.m, key, value))
    ELSE self

\* set_key that assigns a fresh one-entry object to self
set_key_replacing_map(self, key, value) ==
    IF obj(self) # None THEN Obj(Map1(key, value)) ELSE self

set_key(self, key, value) ==
    IF obj(self) # None
    THEN IF contains_key(self.m, key)
         THEN Obj([self.m EXCEPT ![key] = value])
         ELSE Obj(map_insert(self.m, key, value))
    ELSE self

get_key(self, key) ==
    IF obj(self) # None
    THEN IF contains_key(self.m, key) THEN Some(self.m[key]) ELSE None
    ELSE None

has_key(self, key) ==
    IF obj(self) # None THEN contains_key(self.m, key) ELSE FALSE

\* remove_get_key that looks the value up without removing it
remove_get_key_keeping(self, key) ==
    IF obj(self) # None
    THEN [self |-> self,
          ret  |-> IF contains_key(self.m, key) THEN Some(self.m[key]) ELSE None]
    ELSE [self |-> self, ret |-> None]

\* returns the node afterwards and the Option<Value> handed back
remove_get_key(self, key) ==
    IF obj(self) # None
    THEN [self |-> Obj(map_remove(self.m, key)),
          ret  |-> IF contains_key(self.m, key) THEN Some(self.m[key]) ELSE None]
    ELSE [self |-> self, ret |-> None]

remove_key(self, key) == remove_get_key(self, key).self

\* set_obj without the early return for an object that has no keys
set_obj_no_empty_check(self, key, object) ==
    IF ~is_object(object) THEN self
    ELSE LET can_extend == has_key(self, key) /\ any_keys(self)
         IN  IF obj(self) # None
             THEN IF can_extend
                  THEN Obj(map_extend(self.m, object.m))
                  ELSE set_key(self, key, object)
             ELSE self

\* set_obj that extends self whether or not key is present
set_obj_always_extend(self, key, object) ==
    IF ~is_object(object) THEN self
    ELSE IF ~any_keys(object) THEN self
    ELSE IF obj(self) # None THEN Obj(map_extend(self.m, object.m))
    ELSE self

set_obj(self, key, object) ==
    IF ~is_object(object) THEN self
    ELSE IF ~any_keys(object) THEN self
    ELSE LET can_extend == has_key(self, key) /\ any_keys(self)
         IN  IF obj(self) # None
             THEN IF can_extend
                  THEN Obj(map_extend(self.m, object.m))
                  ELSE set_key(self, key, object)
             ELSE self

\* get_obj without the is_object test on the value found
get_obj_any_value(self, key) ==
    IF ~is_object(self) THEN None
    ELSE get_key(self, key)

get_obj(self, key) ==
    IF ~is_object(self) THEN None
    ELSE LET value == get_key(self, key)
         IN  IF value # None
             THEN IF is_object(value.v) THEN value ELSE None
             ELSE None

\* new_obj that keeps an object already stored under key
new_obj_get_or_create(self, key) ==
    IF ~is_object(self) THEN [self |-> self, ret |-> None]
    ELSE IF get_obj(self, key) # None THEN [self |-> self, ret |-> get_obj(self, key)]
    ELSE LET after == set_key(self, key, EmptyObj)
         IN  [self |-> after, ret |-> Some(get_key(after, key).v)]

\* returns the node afterwards and the Option<&mut Value> handed back
new_obj(self, key) ==
    IF ~is_object(self) THEN [self |-> self, ret |-> None]
    ELSE LET after == set_key(self, key, EmptyObj)
         IN  [self |-> after, ret |-> Some(get_key(after, key).v)]

-----------------------------------------------------------------------------
(* Text of a file: a sequence of JSON tokens, white space included.         *)

Tok(k, s, n) == [k |-> k, s |-> s, n |-> n]

P(c)      == Tok("p", c, 0)          \* punctuation  { } [ ] : ,
Lit(w)    == Tok("lit", w, 0)        \* null true false
NumT(n)   == Tok("num", "", n)       \* a number
StrT(s)   == Tok("str", s, 0)        \* a quoted string
NL        == Tok("ws", "nl", 1)      \* a line break
SP(n)     == Tok("ws", "sp", n)      \* n spaces
Junk      == Tok("junk", "x", 0)     \* a character no JSON token starts with

\* PrettyFormatter writes two spaces per nesting level
indent(d) == IF d = 0 THEN << >> ELSE <<SP(d + d)>>

RECURSIVE to_pretty(_, _)
RECURSIVE pretty_elems(_, _, _)
RECURSIVE pretty_members(_, _, _, _)

\* the elements of array a from index i on, at nesting depth d
pretty_elems(a, i, d) ==
    IF i > Len(a) THEN << >>
    ELSE (IF i = 1 THEN <<NL>> ELSE <<P(","), NL>>)
         \o indent(d) \o to_pretty(a[i], d)
         \o pretty_elems(a, i + 1, d)

\* the members of map m named by ks from index i on, at nesting depth d
pretty_members(m, ks, i, d) ==
    IF i > Len(ks) THEN << >>
    ELSE (IF i = 1 THEN <<NL>> ELSE <<P(","), NL>>)
         \o indent(d) \o <<StrT(ks[i]), P(":"), SP(1)>> \o to_pretty(m[ks[i]], d)
         \o pretty_members(m, ks, i + 1, d)

\* serde_json::to_writer_pretty
to_pretty(v, d) ==
    CASE v.t = "null" -> <<Lit("null")>>
      [] v.t = "bool" -> <<Lit(IF v.b THEN "true" ELSE "false")>>
      [] v.t = "num"  -> <<NumT(v.n)>>
      [] v.t = "str"  -> <<StrT(v.s)>>
      [] v.t = "arr"  ->
            IF Len(v.a) = 0 THEN <<P("["), P("]")>>
            ELSE <<P("[")>> \o pretty_elems(v.a, 1, d + 1)
                 \o <<NL>> \o indent(d) \o <<P("]")>>
      [] v.t = "obj"  ->
            IF DOMAIN v.m = {} THEN <<P("{"), P("}")>>
            ELSE <<P("{")>> \o pretty_members(v.m, sorted_keys(v.m), 1, d + 1)
                 \o <<NL>> \o indent(d) \o <<P("}")>>

to_writer_pretty(v) == to_pretty(v, 0)

\* serde_json::from_str : a recursive-descent parse of the whole text
Err       == [ok |-> FALSE]
Ok(v, i)  == [ok |-> TRUE, v |-> v, i |-> i]

RECURSIVE skip_ws(_, _)
skip_ws(toks, i) ==
    IF i <= Len(toks) /\ toks[i].k = "ws" THEN skip_ws(toks, i + 1) ELSE i

is_punct(toks, i, c) == i <= Len(toks) /\ toks[i] = P(c)

RECURSIVE parse_value(_, _)
RECURSIVE parse_elems(_, _, _)
RECURSIVE parse_members(_, _, _)

\* after "[" or ",": one element, then "," or "]"
parse_elems(toks, i, acc) ==
    LET r == parse_value(toks, i)
    IN  IF ~r.ok THEN Err
        ELSE LET j == skip_ws(toks, r.i)
             IN  IF is_punct(toks, j, ",") THEN parse_elems(toks, j + 1, Append(acc, r.v))
                 ELSE IF is_punct(toks, j, "]") THEN Ok(Arr(Append(acc, r.v)), j + 1)
                 ELSE Err

\* after "{" or ",": one "key": value, then "," or "}"; a repeated key replaces
parse_members(toks, i, m) ==
    LET j == skip_ws(toks, i)
    IN  IF ~(j <= Len(toks) /\ toks[j].k = "str") THEN Err
        ELSE LET c == skip_ws(toks, j + 1)
             IN  IF ~is_punct(toks, c, ":") THEN Err
                 ELSE LET r == parse_value(toks, c + 1)
                      IN  IF ~r.ok THEN Err
                          ELSE LET e  == skip_ws(toks, r.i)
                                   m2 == map_insert(m, toks[j].s, r.v)
                               IN  IF is_punct(toks, e, ",") THEN parse_members(toks, e + 1, m2)
                                   ELSE IF is_punct(toks, e, "}") THEN Ok(Obj(m2), e + 1)
                                   ELSE Err

parse_value(toks, i0) ==
    LET i == skip_ws(toks, i0)
    IN  IF i > Len(toks) THEN Err
        ELSE LET tk == toks[i]
             IN  CASE tk.k = "lit" ->
                        (CASE tk.s = "null"  -> Ok(Null, i + 1)
                           [] tk.s = "true"  -> Ok(Bool(TRUE), i + 1)
                           [] tk.s = "false" -> Ok(Bool(FALSE), i + 1)
                           [] OTHER          -> Err)
                   [] tk.k = "num" -> Ok(Num(tk.n), i + 1)
                   [] tk.k = "str" -> Ok(Str(tk.s), i + 1)
                   [] tk = P("[") ->
                        LET j == skip_ws(toks, i + 1)
                        IN  IF is_punct(toks, j, "]") THEN Ok(Arr(<< >>), j + 1)
                            ELSE parse_elems(toks, j, << >>)
                   [] tk = P("{") ->
                        LET j == skip_ws(toks, i + 1)
                        IN  IF is_punct(toks, j, "}") THEN Ok(EmptyObj, j + 1)
                            ELSE parse_members(toks, j, EmptyMap)
                   [] OTHER -> Err

\* Result<Value>: the value must be followed by nothing but white space
from_str(toks) ==
    LET r == parse_value(toks, 1)
    IN  IF ~r.ok THEN Err
        ELSE IF skip_ws(toks, r.i) <= Len(toks) THEN Err
        ELSE Ok(r.v, r.i)

-----------------------------------------------------------------------------
(* The file system as FigCon sees it: Path::exists, File::open,             *)
(* read_to_string, File::create and the writes that follow it.  kind and    *)
(* data say what reading finds; create says what File::create and the       *)
(* writes do at the path, which the permissions and the device decide       *)
(* independently of what reading finds:                                     *)
(*   "denied"   File::create fails                                          *)
(*   "writes"   File::create succeeds and the writes reach the file         *)
(*   "full"     File::create succeeds and every write fails                 *)
(*   "discards" File::create succeeds, the writes succeed and are dropped   *)

\* no such file, in a directory that can be written
Absent      == [kind |-> "absent",   data |-> << >>, create |-> "writes"]
\* exists, cannot be opened for reading or writing
NoAccess    == [kind |-> "noaccess", data |-> << >>, create |-> "denied"]
\* opens, cannot be read or created
Directory   == [kind |-> "dir",      data |-> << >>, create |-> "denied"]
\* opens, content is not UTF-8
Binary      == [kind |-> "binary",   data |-> << >>, create |-> "writes"]
\* a readable and writable text file
TextFile(d) == [kind |-> "text",     data |-> d,     create |-> "writes"]

\* f without write permission (for Absent: the directory is missing or read-only)
ReadOnly(f)  == [f EXCEPT !.create = "denied"]
\* f on a device without space left
OnFull(f)    == [f EXCEPT !.create = "full"]
\* a file that can be written but not read
WriteOnly(d) == [kind |-> "noaccess", data |-> d, create |-> "writes"]
\* the null device: reads as empty, swallows what is written
DevNull      == [kind |-> "text", data |-> << >>, create |-> "discards"]

exists(f)    == f.kind # "absent"
open_ok(f)   == f.kind \in {"dir", "binary", "text"}
read_ok(f)   == f.kind = "text"
create_ok(f) == f.create # "denied"

\* the file after File::create has succeeded: a regular file is created or
\* truncated and keeps its permissions, a device stays as it is
created(f) ==
    IF f.create = "discards" THEN f
    ELSE [f EXCEPT !.kind = IF f.kind = "noaccess" THEN "noaccess" ELSE "text",
                   !.data = << >>]

\* the file after text was written to it and flushed
written(f, text) == [f EXCEPT !.data = text]

RECURSIVE digits(_)
digits(n) == IF n < 10 THEN 1 ELSE 1 + digits(n \div 10)

\* the number of bytes a token takes in the file
tok_bytes(tok) ==
    CASE tok.k = "ws"  -> tok.n
      [] tok.k = "num" -> digits(tok.n)
      [] tok.k = "str" -> Len(tok.s) + 2
      [] tok.k = "lit" -> Len(tok.s)
      [] OTHER         -> 1

RECURSIVE byte_len(_)
byte_len(toks) ==
    IF toks = << >> THEN 0 ELSE tok_bytes(Head(toks)) + byte_len(Tail(toks))

\* a panic (the message of the failing expect/unwrap) or a returned value
Panic(msg)   == [panic |-> TRUE, msg |-> msg]
Returned(x)  == [panic |-> FALSE, v |-> x]

FigConOf(json, path) == [live_config |-> json, location |-> path]

-----------------------------------------------------------------------------
(* impl FigCon : pure parts                                                 *)

\* load_or_default with the parse error swallowed into the default
load_or_default_lenient(files, path) ==
    IF exists(files[path]) /\ open_ok(files[path])
    THEN IF ~read_ok(files[path]) THEN Panic("Failed to read config from storage")
         ELSE LET json == from_str(files[path].data)
              IN  IF ~json.ok THEN Returned(FigConOf(EmptyObj, path))
                  ELSE Returned(FigConOf(json.v, path))
    ELSE Returned(FigConOf(EmptyObj, path))

\* load_or_default with File::open(..).expect(..) on every existing path
load_or_default_must_open(files, path) ==
    IF exists(files[path])
    THEN IF ~open_ok(files[path]) THEN Panic("Failed to open config file")
         ELSE IF ~read_ok(files[path]) THEN Panic("Failed to read config from storage")
         ELSE LET json == from_str(files[path].data)
              IN  IF ~json.ok THEN Panic("JSON deserialization failed")
                  ELSE Returned(FigConOf(json.v, path))
    ELSE Returned(FigConOf(EmptyObj, path))

load_or_default(files, path) ==
    IF exists(files[path]) /\ open_ok(files[path])
    THEN IF ~read_ok(files[path]) THEN Panic("Failed to read config from storage")
         ELSE LET json == from_str(files[path].data)
              IN  IF ~json.ok THEN Panic("JSON deserialization failed")
                  ELSE Returned(FigConOf(json.v, path))
    ELSE Returned(FigConOf(EmptyObj, path))

\* save: how the call ends (out) and the files it leaves.  The text goes
\* through a BufWriter of 8192 bytes: a longer text is flushed while it is
\* serialized, and a failing flush is the second expect; a text that fits is
\* flushed when the BufWriter is dropped, where a failure is ignored.
save(files, self) ==
    LET f    == files[self.location]
        text == to_writer_pretty(self.live_config)
    IN  IF ~create_ok(f)
        THEN [out |-> Panic("Failed to create config file"), files |-> files]
        ELSE IF f.create = "full"
        THEN [out   |-> IF byte_len(text) > 8192
                        THEN Panic("Config JSON serialization / writeout failed")
                        ELSE Returned(Unit),
              files |-> [files EXCEPT ![self.location] = created(f)]]
        ELSE IF f.create = "discards"
        THEN [out |-> Returned(Unit), files |-> files]
        ELSE [out   |-> Returned(Unit),
              files |-> [files EXCEPT ![self.location] = written(created(f), text)]]

-----------------------------------------------------------------------------
(* Inputs of the explored calls                                             *)

Scalars == {Num(n) : n \in 1..MaxNum}

\* values handed to set_key
SetValues == Scalars \cup {Obj(Map1("a", Num(1)))}

\* values handed to set_obj: a non-object, an empty object, non-empty objects
Incoming == {Num(1), EmptyObj, Obj(Map1("b", Num(MaxNum))),
             Obj(Map2("a", Num(MaxNum), "b", Num(1)))}

RECURSIVE doubled(_, _)
doubled(str, k) == IF k = 0 THEN str ELSE doubled(str \o str, k - 1)

\* a string value whose text does not fit the BufWriter of save
LongString == doubled("x", 13)

\* the smaller inputs explored together with the file system
FileKeys     == {"a"}
FileValues   == Scalars \cup {Str(LongString)}
FileIncoming == {Obj(Map1("b", Num(1)))}

\* texts a config file may hold before the program first runs
InitTexts ==
    { << >>,                                                  \* empty file
      <<P("{"), P("}")>>,                                     \* {}
      <<P("{"), StrT("a"), P(":"), NumT(1), P("}")>>,         \* {"a":1}
      <<P("{"), StrT("a"), P(":"), NumT(1), P(",")>>,         \* {"a":1,   (cut short)
      <<P("["), Lit("true"), P(","), SP(1), Lit("null"), P("]")>>,   \* [true, null]
      <<StrT("s")>>,                                          \* "s"
      <<P("{"), NL, SP(2), StrT("b"), P(":"), SP(1), P("["), NL, SP(4), Lit("false"),
        P(","), NL, SP(4), P("{"), P("}"), NL, SP(2), P("]"), NL, P("}"), NL>>,
                                                              \* {"b": [false, {}]}, pretty
      <<P("{"), P("}"), NL, Junk>> }                          \* {} followed by junk

\* {"a":1}
SomeText == <<P("{"), StrT("a"), P(":"), NumT(1), P("}")>>

InitFiles ==
    {Absent, NoAccess, Directory, Binary} \cup {TextFile(t) : t \in InitTexts}
    \cup {ReadOnly(Absent), WriteOnly(SomeText), ReadOnly(TextFile(SomeText)),
          OnFull(TextFile(SomeText))}

\* the second path starts without a file, closed, or with a config of its own
OtherFiles == {Absent, NoAccess, TextFile(<<P("{"), StrT("b"), P(":"), NumT(1), P("}")>>),
               OnFull(Absent), DevNull}

InitFs == {f \in [Paths -> InitFiles \cup OtherFiles] :
              f["p1"] \in InitFiles /\ f["p2"] \in OtherFiles}

\* trees a config file may hold when only the key operations are explored
NavRoots ==
    { EmptyObj,
      Obj(Map1("a", Num(1))),
      Obj(Map2("a", Obj(Map1("a", Num(1))), "b", Str("s"))),
      Arr(<<Bool(TRUE), Null>>),
      Str("s") }

Call(op, key, val, path) ==
    [op |-> op, key |-> key, key2 |-> NoKey, val |-> val, path |-> path,
     prev |-> IF \/ op \in {"save", "reload"}
                 \/ (op = "set_key" /\ last.op = op /\ last.key = key /\ last.val = val)
              THEN last.op ELSE "none"]

NoCall == [op |-> "none", key |-> NoKey, key2 |-> NoKey, val |-> NoValue,
           path |-> NoPath, prev |-> "none"]

self == FigConOf(live_config, location)

-----------------------------------------------------------------------------
(* State machine                                                            *)

Init ==
    /\ status = "Unloaded"
    /\ live_config = NoValue
    /\ location = NoPath
    /\ fs \in InitFs
    /\ last = NoCall
    /\ ret = Unit

\* FigCon::load_or_default(path)
LoadOrDefault(path) ==
    /\ status = "Unloaded"
    /\ LET r == load_or_default(fs, path)
       IN  IF r.panic
           THEN /\ status' = "Panicked"
                /\ ret' = r
                /\ UNCHANGED <<live_config, location>>
           ELSE /\ status' = "Loaded"
                /\ live_config' = r.v.live_config
                /\ location' = r.v.location
                /\ ret' = r
    /\ last' = Call("load_or_default", NoKey, NoValue, path)
    /\ UNCHANGED fs

\* set_path that also writes the live config to the new location
SetPathWriting(path) ==
    /\ status = "Loaded"
    /\ location' = path
    /\ fs' = [fs EXCEPT ![path] = TextFile(to_writer_pretty(live_config))]
    /\ last' = Call("set_path", NoKey, NoValue, path)
    /\ ret' = Unit
    /\ UNCHANGED <<status, live_config>>

\* FigCon::set_path(path)
SetPath(path) ==
    /\ status = "Loaded"
    /\ location' = path
    /\ last' = Call("set_path", NoKey, NoValue, path)
    /\ ret' = Unit
    /\ UNCHANGED <<status, live_config, fs>>

\* reload that overwrites the config in memory as well
ReloadInPlace ==
    /\ status = "Loaded"
    /\ LET r == load_or_default(fs, location)
       IN  /\ status' = IF r.panic THEN "Panicked" ELSE "Loaded"
           /\ ret' = r
           /\ live_config' = IF r.panic THEN live_config ELSE r.v.live_config
    /\ last' = Call("reload", NoKey, NoValue, NoPath)
    /\ UNCHANGED <<location, fs>>

\* FigCon::reload() : the fresh instance is returned, self is not assigned
Reload ==
    /\ status = "Loaded"
    /\ LET r == load_or_default(fs, location)
       IN  /\ status' = IF r.panic THEN "Panicked" ELSE "Loaded"
           /\ ret' = r
    /\ last' = Call("reload", NoKey, NoValue, NoPath)
    /\ UNCHANGED <<live_config, location, fs>>

\* conf = conf.reload() : the caller binds the instance reload returned
Rebind ==
    /\ status = "Loaded"
    /\ last.op = "reload"
    /\ live_config' = ret.v.live_config
    /\ location' = ret.v.location
    /\ last' = Call("rebind", NoKey, NoValue, NoPath)
    /\ ret' = Unit
    /\ UNCHANGED <<status, fs>>

\* FigCon::save()
Save ==
    /\ status = "Loaded"
    /\ LET r == save(fs, self)
       IN  /\ fs' = r.files
           /\ IF r.out.panic
              THEN status' = "Panicked" /\ ret' = r.out
              ELSE status' = status /\ ret' = Unit
    /\ last' = Call("save", NoKey, NoValue, NoPath)
    /\ UNCHANGED <<live_config, location>>

\* a call that only reads live_config and returns r
Query(op, key, r) ==
    /\ status = "Loaded"
    /\ last' = Call(op, key, NoValue, NoPath)
    /\ ret' = r
    /\ UNCHANGED <<status, live_config, location, fs>>

\* a call that leaves live_config as after and returns r
Update(op, key, val, after, r) ==
    /\ status = "Loaded"
    /\ live_config' = after
    /\ last' = Call(op, key, val, NoPath)
    /\ ret' = r
    /\ UNCHANGED <<status, location, fs>>

\* FigCon::any_keys / list_keys / list_values
AnyKeys    == Query("any_keys", NoKey, [bool |-> any_keys(live_config)])
ListKeys   == Query("list_keys", NoKey, list_keys(live_config))
ListValues == Query("list_values", NoKey, list_values(live_config))

\* FigCon::get_key / has_key / get_obj
GetKey(key) == Query("get_key", key, get_key(live_config, key))
HasKey(key) == Query("has_key", key, [bool |-> has_key(live_config, key)])
GetObj(key) == Query("get_obj", key, get_obj(live_config, key))

\* set_key that writes the file through on every call
SetKeyWriteThrough(key, value) ==
    /\ status = "Loaded"
    /\ live_config' = set_key(live_config, key, value)
    /\ fs' = IF create_ok(fs[location])
             THEN [fs EXCEPT ![location] = TextFile(to_writer_pretty(live_config'))]
             ELSE fs
    /\ last' = Call("set_key", key, value, NoPath)
    /\ ret' = Unit
    /\ UNCHANGED <<status, location>>

\* FigCon::set_key
SetKey(key, value) ==
    Update("set_key", key, value, set_key(live_config, key, value), Unit)

\* FigCon::remove_get_key
RemoveGetKey(key) ==
    Update("remove_get_key", key, NoValue,
           remove_get_key(live_config, key).self, remove_get_key(live_config, key).ret)

\* FigCon::remove_key
RemoveKey(key) ==
    Update("remove_key", key, NoValue, remove_key(live_config, key), Unit)

\* FigCon::set_obj
SetObj(key, object) ==
    Update("set_obj", key, object, set_obj(live_config, key, object), Unit)

\* FigCon::new_obj : unwraps the Option of the root's new_obj
NewObj(key) ==
    /\ status = "Loaded"
    /\ LET r == new_obj(live_config, key)
       IN  IF r.ret = None
           THEN /\ status' = "Panicked"
                /\ ret' = Panic("called Option::unwrap() on a None value")
                /\ UNCHANGED live_config
           ELSE /\ live_config' = r.self
                /\ ret' = r.ret
                /\ UNCHANGED status
    /\ last' = Call("new_obj", key, NoValue, NoPath)
    /\ UNCHANGED <<location, fs>>

\* conf.get_key(key) hands out a &mut Value; set_key is called on it
ChildSetKey(key, key2, value) ==
    /\ status = "Loaded"
    /\ get_key(live_config, key) # None
    /\ live_config' = set_key(live_config, key, set_key(live_config.m[key], key2, value))
    /\ last' = [Call("child.set_key", key, value, NoPath) EXCEPT !.key2 = key2]
    /\ ret' = Unit
    /\ UNCHANGED <<status, location, fs>>

\* conf.get_key(key) hands out a &mut Value; new_obj is called on it
ChildNewObj(key, key2) ==
    /\ status = "Loaded"
    /\ get_key(live_config, key) # None
    /\ live_config' = set_key(live_config, key, new_obj(live_config.m[key], key2).self)
    /\ last' = [Call("child.new_obj", key, NoValue, NoPath) EXCEPT !.key2 = key2]
    /\ ret' = new_obj(live_config.m[key], key2).ret
    /\ UNCHANGED <<status, location, fs>>

\* the store with its file: load, path, save, reload and the mutating calls
Next ==
    \/ \E path \in Paths : LoadOrDefault(path)
    \/ \E path \in Paths : SetPath(path)
    \/ Reload
    \/ Rebind
    \/ Save
    \/ \E key \in FileKeys, value \in FileValues : SetKey(key, value)
    \/ \E key \in FileKeys : RemoveKey(key)
    \/ \E key \in FileKeys, object \in FileIncoming : SetObj(key, object)
    \/ \E key \in FileKeys : NewObj(key)

Spec == Init /\ [][Next]_vars

\* a store just loaded from a file holding one of NavRoots
InitNav ==
    /\ \E tree \in NavRoots :
          /\ fs = [p \in Paths |-> IF p = "p1" THEN TextFile(to_writer_pretty(tree)) ELSE Absent]
          /\ live_config = load_or_default(fs, "p1").v.live_config
          /\ location = load_or_default(fs, "p1").v.location
    /\ status = "Loaded"
    /\ last = [NoCall EXCEPT !.op = "load_or_default", !.path = "p1"]
    /\ ret = Unit

\* the key operations alone, on the root and on a child handed out by get_key
NextNav ==
    \/ AnyKeys
    \/ ListKeys
    \/ ListValues
    \/ \E key \in Keys : GetKey(key)
    \/ \E key \in Keys : HasKey(key)
    \/ \E key \in Keys : GetObj(key)
    \/ \E key \in Keys, value \in SetValues : SetKey(key, value)
    \/ \E key \in Keys : RemoveGetKey(key)
    \/ \E key \in Keys : RemoveKey(key)
    \/ \E key \in Keys, object \in Incoming : SetObj(key, object)
    \/ \E key \in Keys : NewObj(key)
    \/ \E key \in Keys, key2 \in Keys, value \in Scalars : ChildSetKey(key, key2, value)
    \/ \E key \in Keys, key2 \in Keys : ChildNewObj(key, key2)

SpecNav == InitNav /\ [][NextNav]_vars

-----------------------------------------------------------------------------
(* Properties                                                               *)

\* names under which the key operations are recorded in last.op
RootOps == {"any_keys", "list_keys", "list_values", "get_key", "has_key", "get_obj",
            "set_key", "remove_get_key", "remove_key", "set_obj", "new_obj"}
ChildOps == {"child.set_key", "child.new_obj"}
MutatingOps == {"set_key", "remove_key", "set_obj", "new_obj"}

keys_of(v) == IF v.t = "obj" THEN DOMAIN v.m ELSE {}

\* texts that are not one JSON value
BadTexts ==
    { << >>,
      <<P("{"), StrT("a"), P(":"), NumT(1), P(",")>>,
      <<P("{"), P("}"), NL, Junk>> }

\* C1: set_obj(key, incoming) on a root that has keys and already contains
\* key, with incoming an Object that has keys, leaves at key an Object whose
\* key set is the union of the keys previously under key and incoming's keys,
\* every key of incoming carrying incoming's value.
C1_MergeIntoValueAtKey ==
    [][ (/\ last'.op = "set_obj"
         /\ live_config.t = "obj"
         /\ DOMAIN live_config.m # {}
         /\ last'.key \in DOMAIN live_config.m
         /\ last'.val.t = "obj"
         /\ DOMAIN last'.val.m # {})
        => /\ live_config'.t = "obj"
           /\ last'.key \in DOMAIN live_config'.m
           /\ live_config'.m[last'.key].t = "obj"
           /\ DOMAIN live_config'.m[last'.key].m
                 = keys_of(live_config.m[last'.key]) \cup DOMAIN last'.val.m
           /\ \A k \in DOMAIN last'.val.m :
                 live_config'.m[last'.key].m[k] = last'.val.m[k]
      ]_vars

\* C2: whenever a FigCon exists (after load_or_default, after any call on it,
\* and for the instance reload returns) its root is an Object.
C2_RootIsObject ==
    /\ status = "Loaded" => live_config.t = "obj"
    /\ (status = "Loaded" /\ last.op = "reload") => ret.v.live_config.t = "obj"

\* C3: round trip.  A save that returns leaves the file such that load_or_default of the
\* stored path yields the tree held in memory at the save, whatever the file
\* held before; a reload called right after returns exactly that tree.
C3_SaveThenLoadRoundTrip ==
    [][ /\ (last'.op = "save" /\ status' = "Loaded")
           => load_or_default(fs', location') = Returned(FigConOf(live_config, location))
        /\ (last.op = "save" /\ status = "Loaded" /\ last'.op = "reload")
           => /\ status' = "Loaded"
              /\ ret' = Returned(FigConOf(live_config, location))
      ]_vars

\* C4: a key operation whose target node is not an Object (the root for the
\* FigCon calls, the value handed out by get_key for the child calls) returns
\* None/false/nothing, leaves the tree unchanged and does not panic.
C4_TypeMismatchNeverFatal ==
    [][ /\ (last'.op \in RootOps /\ live_config.t # "obj")
           => /\ status' # "Panicked"
              /\ live_config' = live_config
              /\ ret' \in {None, Unit, [bool |-> FALSE]}
        /\ (/\ last'.op \in ChildOps
            /\ live_config.t = "obj"
            /\ last'.key \in DOMAIN live_config.m
            /\ live_config.m[last'.key].t # "obj")
           => /\ status' # "Panicked"
              /\ live_config' = live_config
              /\ ret' \in {None, Unit}
      ]_vars

\* the file a load_or_default or reload step reads
read_path == IF last'.op = "reload" THEN location ELSE last'.path

\* C5: load_or_default (also when called by reload) of a file that opens but
\* cannot be read, or whose text is not one JSON value, panics: no FigCon is
\* returned, in particular not an empty default.
C5_BadFileIsFatal ==
    [][ (/\ last'.op \in {"load_or_default", "reload"}
         /\ \/ fs[read_path].kind \in {"dir", "binary"}
            \/ /\ fs[read_path].kind = "text"
               /\ (fs[read_path].data \in BadTexts \/ ~from_str(fs[read_path].data).ok))
        => /\ status' = "Panicked"
           /\ ret'.panic
           /\ live_config' = live_config
      ]_vars

\* load_or_default has panicked on a text that is not JSON
C5_Witness ==
    /\ last.op = "load_or_default" /\ status = "Panicked"
    /\ fs[last.path].kind = "text" /\ fs[last.path].data \in BadTexts
    /\ ret.msg = "JSON deserialization failed"

\* C6: load_or_default(path) of a file that is absent or cannot be opened
\* returns an empty Object root with location = path; a file that opens yields
\* a panic or the file's own tree, never a default; no file is changed.
C6_DefaultOnlyWhenAbsentOrClosed ==
    [][ last'.op = "load_or_default"
        => /\ fs' = fs
           /\ IF fs[last'.path].kind \in {"absent", "noaccess"}
              THEN /\ status' = "Loaded"
                   /\ live_config' = EmptyObj
                   /\ ~any_keys(live_config')
                   /\ location' = last'.path
              ELSE \/ status' = "Panicked"
                   \/ /\ fs[last'.path].kind = "text"
                      /\ from_str(fs[last'.path].data).ok
                      /\ live_config' = from_str(fs[last'.path].data).v
                      /\ location' = last'.path
      ]_vars

\* a file that exists but does not open was loaded as an empty Object
C6_Witness ==
    /\ last.op = "load_or_default" /\ status = "Loaded"
    /\ fs[last.path].kind = "noaccess"
    /\ live_config = EmptyObj /\ location = last.path

\* C7: reload leaves live_config, location and the files as they were and
\* returns what load_or_default(location) returns: the file's tree, or an
\* empty Object when there is no file, with nothing of live_config in it.
C7_ReloadReturnsFreshInstance ==
    [][ last'.op = "reload"
        => /\ live_config' = live_config
           /\ location' = location
           /\ fs' = fs
           /\ ret' = load_or_default(fs, location)
           /\ fs[location].kind = "absent"
                 => ret' = Returned(FigConOf(EmptyObj, location))
           /\ (fs[location].kind = "text" /\ from_str(fs[location].data).ok)
                 => ret' = Returned(FigConOf(from_str(fs[location].data).v, location))
      ]_vars

\* reload returned a tree lacking a key the tree in memory still has
C7_Witness ==
    /\ last.op = "reload" /\ status = "Loaded"
    /\ live_config.t = "obj"
    /\ \E k \in DOMAIN live_config.m : ~has_key(ret.v.live_config, k)
    /\ ret.v.location = location

\* C8: set_path(p) sets location to p and changes nothing else: not the
\* tree, not the file at the old path, not the file at p.
C8_SetPathOnlyChangesLocation ==
    [][ last'.op = "set_path"
        => /\ location' = last'.path
           /\ live_config' = live_config
           /\ fs' = fs
           /\ status' = status
      ]_vars

\* the path was set to one without a file, and no file has appeared there
C8_Witness ==
    /\ last.op = "set_path" /\ last.path = "p2" /\ location = "p2"
    /\ fs["p2"].kind = "absent" /\ fs["p1"].kind = "text"
    /\ any_keys(live_config)

\* C9: a save right after set_path(p) writes the tree in memory to p and
\* leaves every other file as it was; a reload right after that save returns
\* the tree read back from p.
C9_SaveGoesToNewPath ==
    [][ /\ (last.op = "set_path" /\ last'.op = "save" /\ status' = "Loaded")
           => /\ fs'[last.path].data = to_writer_pretty(live_config)
              /\ from_str(fs'[last.path].data) = Ok(live_config, Len(fs'[last.path].data) + 1)
              /\ \A q \in Paths \ {last.path} : fs'[q] = fs[q]
        /\ (/\ last.op = "save" /\ last.prev = "set_path" /\ status = "Loaded"
            /\ last'.op = "reload")
           => /\ ret' = Returned(FigConOf(from_str(fs[location].data).v, location))
              /\ ret' = Returned(FigConOf(live_config, location))
      ]_vars

\* C10: set_key, remove_key, set_obj and new_obj change no file, a file
\* changes only in a save step, and reload returns what the file at location
\* holds (an empty Object when there is none), not the tree in memory.
C10_KeyOpsStayInMemory ==
    [][ /\ last'.op \in MutatingOps => fs' = fs
        /\ fs' # fs => last'.op = "save"
        /\ (last'.op = "reload" /\ status' = "Loaded")
           => ret'.v.live_config =
                 IF fs[location].kind = "text" THEN from_str(fs[location].data).v
                 ELSE EmptyObj
      ]_vars

\* after a mutating call, reload returned the file's tree, which differs from
\* the tree in memory
C10_Witness ==
    /\ last.op = "reload" /\ last.prev \in MutatingOps /\ status = "Loaded"
    /\ fs[location].kind = "text"
    /\ ret.v.live_config # live_config

\* C11: set_key(k, v) on an Object root makes get_key(k) return v and
\* has_key(k) true, whether k was absent or held another value; a get_key or
\* has_key called right after the set_key returns just that.  The same holds
\* for set_key on an Object child of the root.
C11_SetThenGet ==
    [][ /\ (last'.op = "set_key" /\ live_config.t = "obj")
           => /\ live_config'.t = "obj"
              /\ last'.key \in DOMAIN live_config'.m
              /\ live_config'.m[last'.key] = last'.val
              /\ get_key(live_config', last'.key) = Some(last'.val)
              /\ has_key(live_config', last'.key)
        /\ (last'.op = "child.set_key" /\ live_config.m[last'.key].t = "obj")
           => /\ get_key(live_config'.m[last'.key], last'.key2) = Some(last'.val)
              /\ has_key(live_config'.m[last'.key], last'.key2)
        /\ (/\ last.op = "set_key" /\ live_config.t = "obj"
            /\ last'.op = "get_key" /\ last'.key = last.key)
           => ret' = Some(last.val)
        /\ (/\ last.op = "set_key" /\ live_config.t = "obj"
            /\ last'.op = "has_key" /\ last'.key = last.key)
           => ret' = [bool |-> TRUE]
      ]_vars

\* a set_key has stored an object under a key beside another key
C11_Witness ==
    /\ last.op = "set_key" /\ live_config.t = "obj"
    /\ live_config.m[last.key] = last.val
    /\ last.val.t = "obj"
    /\ Cardinality(DOMAIN live_config.m) = 2

\* C12: remove_get_key(k) returns the value stored at k before the call, or
\* None when k was absent or the root is not an Object; afterwards k is
\* absent and every other key has the value it had.
C12_RemoveReturnsPrior ==
    [][ last'.op = "remove_get_key"
        => /\ ret' = IF live_config.t = "obj" /\ last'.key \in DOMAIN live_config.m
                     THEN Some(live_config.m[last'.key]) ELSE None
           /\ ~has_key(live_config', last'.key)
           /\ keys_of(live_config') = keys_of(live_config) \ {last'.key}
           /\ \A k \in keys_of(live_config') : live_config'.m[k] = live_config.m[k]
           /\ live_config'.t = live_config.t
           /\ live_config.t # "obj" => live_config' = live_config
      ]_vars

\* a value was removed and handed back while another key stayed
C12_Witness ==
    /\ last.op = "remove_get_key"
    /\ ret # None
    /\ live_config.t = "obj"
    /\ DOMAIN live_config.m = Keys \ {last.key}

\* C13: set_obj(key, incoming) with incoming not an Object, or an Object
\* without keys, leaves the whole root as it was, key present or not.
C13_MergeOfNothingIsNoOp ==
    [][ (/\ last'.op = "set_obj"
         /\ (last'.val.t # "obj" \/ DOMAIN last'.val.m = {}))
        => /\ live_config' = live_config
           /\ any_keys(live_config') = any_keys(live_config)
           /\ get_key(live_config', last'.key) = get_key(live_config, last'.key)
      ]_vars

\* set_obj was called with an empty object for a key the root does not have
C13_Witness ==
    /\ last.op = "set_obj" /\ last.val = EmptyObj
    /\ live_config.t = "obj"
    /\ last.key \notin DOMAIN live_config.m

\* C14: set_obj(key, incoming) on an Object root without key (an empty root
\* included), incoming an Object with keys, stores incoming as a whole under
\* key, keeps every other key, and adds no key of incoming to the root itself.
C14_MergeIntoAbsentKeySets ==
    [][ (/\ last'.op = "set_obj"
         /\ live_config.t = "obj"
         /\ last'.key \notin DOMAIN live_config.m
         /\ last'.val.t = "obj"
         /\ DOMAIN last'.val.m # {})
        => /\ live_config'.t = "obj"
           /\ DOMAIN live_config'.m = DOMAIN live_config.m \cup {last'.key}
           /\ live_config'.m[last'.key] = last'.val
           /\ get_key(live_config', last'.key) = Some(last'.val)
           /\ \A k \in DOMAIN live_config.m : live_config'.m[k] = live_config.m[k]
      ]_vars

\* incoming sits under key and one of its keys is not a key of the root
C14_Witness ==
    /\ last.op = "set_obj" /\ live_config.t = "obj"
    /\ last.val.t = "obj" /\ DOMAIN last.val.m # {}
    /\ last.key \in DOMAIN live_config.m
    /\ live_config.m[last.key] = last.val
    /\ \E k \in DOMAIN last.val.m : k \notin DOMAIN live_config.m

\* C15: new_obj(key) on an Object node leaves an empty Object under key,
\* whatever was there, keeps every other key and returns the new child; on a
\* node that is not an Object it returns None and changes nothing.  Checked
\* on the root (FigCon::new_obj) and on a child handed out by get_key.
C15_NewObjResetsKey ==
    [][ /\ (last'.op = "new_obj" /\ live_config.t = "obj")
           => /\ live_config'.t = "obj"
              /\ DOMAIN live_config'.m = DOMAIN live_config.m \cup {last'.key}
              /\ live_config'.m[last'.key] = EmptyObj
              /\ \A k \in DOMAIN live_config.m \ {last'.key} :
                    live_config'.m[k] = live_config.m[k]
              /\ ret' = Some(EmptyObj)
        /\ (last'.op = "new_obj" /\ live_config.t # "obj")
           => /\ new_obj(live_config, last'.key).ret = None
              /\ live_config' = live_config
        /\ (last'.op = "child.new_obj" /\ live_config.m[last'.key].t = "obj")
           => /\ DOMAIN live_config'.m = DOMAIN live_config.m
              /\ \A k \in DOMAIN live_config.m \ {last'.key} :
                    live_config'.m[k] = live_config.m[k]
              /\ live_config'.m[last'.key].t = "obj"
              /\ DOMAIN live_config'.m[last'.key].m
                    = DOMAIN live_config.m[last'.key].m \cup {last'.key2}
              /\ live_config'.m[last'.key].m[last'.key2] = EmptyObj
              /\ \A k \in DOMAIN live_config.m[last'.key].m \ {last'.key2} :
                    live_config'.m[last'.key].m[k] = live_config.m[last'.key].m[k]
              /\ ret' = Some(EmptyObj)
        /\ (last'.op = "child.new_obj" /\ live_config.m[last'.key].t # "obj")
           => /\ ret' = None
              /\ live_config' = live_config
      ]_vars

\* new_obj on a child left an empty Object beside the child's other key
C15_Witness ==
    /\ last.op = "child.new_obj" /\ ret = Some(EmptyObj)
    /\ live_config.m[last.key].t = "obj"
    /\ DOMAIN live_config.m[last.key].m = Keys
    /\ live_config.m[last.key].m[last.key2] = EmptyObj
    /\ \E k \in Keys : live_config.m[last.key].m[k] # EmptyObj

\* C16: set_key is idempotent: a second set_key(k, v) with the same key and
\* value leaves the root exactly as the first one left it, on Object and
\* non-Object roots alike.
C16_SetKeyIdempotent ==
    [][ /\ (/\ last.op = "set_key" /\ last'.op = "set_key"
            /\ last'.key = last.key /\ last'.val = last.val)
           => live_config' = live_config
        /\ last'.op = "set_key"
           => set_key(live_config', last'.key, last'.val) = live_config'
      ]_vars

\* the same set_key ran twice in a row and its object value is under the key
C16_Witness ==
    /\ last.op = "set_key" /\ last.prev = "set_key"
    /\ live_config.t = "obj"
    /\ live_config.m[last.key] = last.val
    /\ last.val.t = "obj"

\* C17: any_keys is true exactly for an Object with at least one key;
\* list_keys and list_values return None exactly when any_keys is false (so
\* also for an empty Object), and otherwise every key / every value once.
C17_ListingFollowsAnyKeys ==
    [][ /\ last'.op = "any_keys"
           => ret' = [bool |-> (live_config.t = "obj" /\ DOMAIN live_config.m # {})]
        /\ last'.op \in {"list_keys", "list_values"}
           => /\ (ret' = None) <=> ~any_keys(live_config)
              /\ (ret' = None) <=> ~(live_config.t = "obj" /\ DOMAIN live_config.m # {})
        /\ (last'.op = "list_keys" /\ ret' # None)
           => /\ Len(ret'.v) = Cardinality(DOMAIN live_config.m)
              /\ {ret'.v[i] : i \in 1..Len(ret'.v)} = DOMAIN live_config.m
        /\ (last'.op = "list_values" /\ ret' # None)
           => /\ Len(ret'.v) = Cardinality(DOMAIN live_config.m)
              /\ \E ks \in [1..Len(ret'.v) -> DOMAIN live_config.m] :
                    /\ \A i, j \in 1..Len(ret'.v) : i # j => ks[i] # ks[j]
                    /\ \A i \in 1..Len(ret'.v) : ret'.v[i] = live_config.m[ks[i]]
      ]_vars

\* list_keys answered None for an empty Object
C17_Witness ==
    /\ last.op = "list_keys" /\ ret = None
    /\ live_config = EmptyObj

\* C18: set_key(k, v) on an Object changes key k only: the other keys keep
\* their values, the number of keys grows by one when k was absent and stays
\* when k was present.
C18_SetKeyTouchesOneKey ==
    [][ (last'.op = "set_key" /\ live_config.t = "obj")
        => /\ live_config'.t = "obj"
           /\ \A k \in DOMAIN live_config.m \ {last'.key} :
                 /\ k \in DOMAIN live_config'.m
                 /\ live_config'.m[k] = live_config.m[k]
           /\ DOMAIN live_config'.m \subseteq DOMAIN live_config.m \cup {last'.key}
           /\ Cardinality(DOMAIN live_config'.m)
                 = IF last'.key \in DOMAIN live_config.m
                   THEN Cardinality(DOMAIN live_config.m)
                   ELSE Cardinality(DOMAIN live_config.m) + 1
      ]_vars

\* set_key stored a scalar under one key while the other key holds an object
C18_Witness ==
    /\ last.op = "set_key" /\ live_config.t = "obj"
    /\ DOMAIN live_config.m = Keys
    /\ live_config.m[last.key] = last.val
    /\ last.val.t = "num"
    /\ \E k \in Keys \ {last.key} : live_config.m[k].t = "obj"

\* C19: has_key(key) implies any_keys, so set_obj's gate (key present and
\* self has a key) equals key present alone: a set_obj with an Object that
\* has keys, for a key that is present, always takes the extend branch.
C19_PresentKeyAlwaysExtends ==
    [][ /\ \A k \in Keys :
              /\ has_key(live_config', k) => any_keys(live_config')
              /\ (has_key(live_config', k) /\ any_keys(live_config'))
                    <=> has_key(live_config', k)
        /\ (/\ last'.op = "set_obj"
            /\ live_config.t = "obj"
            /\ last'.key \in DOMAIN live_config.m
            /\ last'.val.t = "obj"
            /\ DOMAIN last'.val.m # {})
           => /\ live_config'.t = "obj"
              /\ DOMAIN live_config'.m = DOMAIN live_config.m \cup DOMAIN last'.val.m
              /\ \A k \in DOMAIN last'.val.m : live_config'.m[k] = last'.val.m[k]
              /\ \A k \in DOMAIN live_config.m \ DOMAIN last'.val.m :
                    live_config'.m[k] = live_config.m[k]
      ]_vars

\* a set_obj for a present key took the extend branch: a key of the incoming
\* object is at the root and the value under key is not the incoming object
C19_Witness ==
    /\ last.op = "set_obj" /\ live_config.t = "obj"
    /\ last.val.t = "obj" /\ DOMAIN last.val.m # {}
    /\ last.key \in DOMAIN live_config.m
    /\ live_config.m[last.key] # last.val
    /\ last.key \notin DOMAIN last.val.m
    /\ \A k \in DOMAIN last.val.m :
          k \in DOMAIN live_config.m /\ live_config.m[k] = last.val.m[k]

\* C20: get_obj(key) returns the child under key only when the root is an
\* Object, key is present and its value is an Object; otherwise None; the
\* root is never changed by it.
C20_GetObjOnlyObjects ==
    [][ last'.op = "get_obj"
        => /\ live_config' = live_config
           /\ ret' = IF /\ live_config.t = "obj"
                        /\ last'.key \in DOMAIN live_config.m
                        /\ live_config.m[last'.key].t = "obj"
                     THEN Some(live_config.m[last'.key])
                     ELSE None
      ]_vars

\* get_obj answered None for a key that is present with a non-Object value
C20_Witness ==
    /\ last.op = "get_obj" /\ ret = None
    /\ live_config.t = "obj"
    /\ last.key \in DOMAIN live_config.m
    /\ live_config.m[last.key].t # "obj"

====
